---- MODULE Spec2Model ----
(***************************************************************************)
(* Model of connector.py: the paged fetcher paged_request_iter and the     *)
(* WorldDataBankConnector that builds the request context, drains the      *)
(* fetcher (queary_json) and appends the flattened rows to a table         *)
(* (queary_to_sql).  The upstream API is the environment: it answers a     *)
(* request for page n with metadata {page: n, pages: P} and that page's    *)
(* records, or with a non-success status.                                  *)
(***************************************************************************)
EXTENDS Integers, Sequences, FiniteSets, TLC

VARIABLES
    session_params,  \* session.params: format, date, page (connector.py:65-69)
    url,             \* self.url (connector.py:70)
    series,          \* constructor argument series
    country,         \* constructor argument country (Absent: not supplied)
    start_date,      \* constructor argument start_date
    end_date,        \* constructor argument end_date (None: not supplied)
    upstream,        \* the API behind session.get: total page count and records per page
    gen,             \* position of the paged_request_iter generator (connector.py:28-40):
                     \* none, top (about to request), yielded (suspended at yield),
                     \* done (left the loop), raised (raise_for_status raised), closed
    info,            \* metadata of the response parsed last
    mode,            \* the operation that drains, or drained last: json, sql, iter
    outcome,         \* running, or how the last operation ended
    previous,        \* how the operation before the current one ended
    data,            \* the list queary_json accumulates
    table,           \* rows of the persistent table
    table_before,    \* the table when the current operation began
    page_at_call,    \* the page counter when the current operation was called
    start_page,      \* the page counter when the current drain began
    requests,        \* page values of the requests issued in the current drain
                     \* (what MockSession.get sees, test_connector.py:130-138)
    statuses,        \* transport statuses of the responses of the current drain
    infos,           \* metadata of the responses parsed in the current drain
    yielded,         \* batches yielded in the current drain
    returned,        \* operation and return value of every completed queary_json
    ncalls           \* number of operations called

vars == <<session_params, url, series, country, start_date, end_date, upstream,
          gen, info, mode, outcome, previous, data, table, table_before, page_at_call,
          start_page, requests, statuses, infos, yielded, returned, ncalls>>

\* ---------------------------------------------------------------- bounds
MaxPages == 3
MaxCalls == 3

\* ---------------------------------------------------------------- values
Absent == "<absent>"       \* a string argument the caller did not supply
None == <<>>                \* Python None for an optional int; Some(v) is the int v
Some(v) == <<v>>
NoInfo == [page |-> -1, pages |-> -1]

BaseUrl == "https://api.worldbank.org/v2"

\* the two records of the test fixture (page1, page2)
CanRecord ==
    [indicator |-> [id |-> "SP.POP.TOTL", value |-> "Population, total"],
     country |-> [id |-> "CA", value |-> "Canada"],
     countryiso3code |-> "CAN", date |-> "2000", value |-> 30685730,
     unit |-> "", obs_status |-> "", decimal |-> 0]

UsaRecord ==
    [indicator |-> [id |-> "SP.POP.TOTL", value |-> "Population, total"],
     country |-> [id |-> "US", value |-> "United States"],
     countryiso3code |-> "USA", date |-> "2000", value |-> 282162411,
     unit |-> "", obs_status |-> "", decimal |-> 0]

\* record batches a page may carry
Batches == {<<CanRecord>>, <<UsaRecord>>, <<CanRecord, UsaRecord>>}

\* transport statuses a response may carry
Statuses == {200, 404}

\* ---------------------------------------------------------------- pure functions
Digit(d) == CASE d = 0 -> "0" [] d = 1 -> "1" [] d = 2 -> "2" [] d = 3 -> "3"
              [] d = 4 -> "4" [] d = 5 -> "5" [] d = 6 -> "6" [] d = 7 -> "7"
              [] d = 8 -> "8" [] d = 9 -> "9"

RECURSIVE NatStr(_)
NatStr(n) == IF n < 10 THEN Digit(n) ELSE NatStr(n \div 10) \o Digit(n % 10)

\* Python str() of an int
Str(n) == IF n < 0 THEN "-" \o NatStr(0 - n) ELSE NatStr(n)

\* Python truthiness of the end argument: None and 0 are false
Truthy(x) == x # None /\ x[1] # 0

\* _make_date_param: ":".join([str(start), str(end)]) if end else str(start)
MakeDateParam(start, end) ==
    IF Truthy(end) THEN Str(start) \o ":" \o Str(end[1]) ELSE Str(start)

\* _make_url with series and country in each other's place
MakeUrlSwapped(s, c) == BaseUrl \o "/country/" \o s \o "/indicator/" \o c

\* _make_url
MakeUrl(s, c) == BaseUrl \o "/country/" \o c \o "/indicator/" \o s

\* the country parameter of __init__ with its default
CountryOrDefault(c) == IF c = Absent THEN "all" ELSE c

\* _refresh that leaves the page where it is
RefreshKeepsPage(params) == params

\* _refresh: page back to 1
Refresh(params) == [params EXCEPT !.page = 1]

\* a response whose status is never looked at
RaisesNever(status) == FALSE

\* raise_for_status raises on a 4xx or 5xx status
RaisesForStatus(status) == status >= 400

\* the stop test one page early
LastPageEarly(i) == i.page + 1 >= i.pages

\* the stop test with > for >=
LastPageLate(i) == i.page > i.pages

\* the stop test of paged_request_iter
LastPage(i) == i.page >= i.pages

\* the page advanced by two
NextPageSkips(params) == [params EXCEPT !.page = @ + 2]

\* session.params["page"] += 1
NextPage(params) == [params EXCEPT !.page = @ + 1]

\* pandas.json_normalize(sep="_") of one record, columns renamed to upper case
NormalizeRecord(r) ==
    [COUNTRYISO3CODE |-> r.countryiso3code, DATE |-> r.date, VALUE |-> r.value,
     UNIT |-> r.unit, OBS_STATUS |-> r.obs_status, DECIMAL |-> r.decimal,
     INDICATOR_ID |-> r.indicator.id, INDICATOR_VALUE |-> r.indicator.value,
     COUNTRY_ID |-> r.country.id, COUNTRY_VALUE |-> r.country.value]

Normalize(d) == [i \in 1..Len(d) |-> NormalizeRecord(d[i])]

\* df.to_sql(if_exists="replace")
ToSqlReplace(t, rows) == rows

\* df.to_sql(if_exists="append"): the rows go after the rows already there
ToSqlAppend(t, rows) == t \o rows

\* the upstream's answer to a request for page n: [metadata, records]
Respond(up, n) ==
    [info |-> [page |-> n, pages |-> up.pages],
     data |-> IF n \in 1..up.pages THEN up.records[n] ELSE <<>>]

\* ---------------------------------------------------------------- initial states
\* the state __init__ leaves
Constructed(s, start, end, c) ==
    /\ series = s
    /\ start_date = start
    /\ end_date = end
    /\ country = c
    /\ session_params = [format |-> "json", date |-> MakeDateParam(start, end), page |-> 1]
    /\ url = MakeUrl(s, CountryOrDefault(c))

\* nothing has been called yet
Fresh ==
    /\ gen = "none"
    /\ info = NoInfo
    /\ mode = "none"
    /\ outcome = "none"
    /\ previous = "none"
    /\ data = <<>>
    /\ table = <<>>
    /\ table_before = <<>>
    /\ page_at_call = 1
    /\ start_page = 1
    /\ requests = <<>>
    /\ statuses = <<>>
    /\ infos = <<>>
    /\ yielded = <<>>
    /\ returned = <<>>
    /\ ncalls = 0

\* every upstream of at most MaxPages pages
Upstreams ==
    UNION {[pages : {p}, records : [1..p -> Batches]] : p \in 0..MaxPages}

\* the two pages MockSession serves
MockUpstream == [pages |-> 2, records |-> <<(<<CanRecord>>), (<<UsaRecord>>)>>]

\* the connector of test_query_and_return_json_data, against any upstream
Init ==
    /\ Constructed("SP.POP.TOTL", 1990, Some(2000), "all")
    /\ upstream \in Upstreams
    /\ Fresh

\* arguments a caller may construct the connector with
SeriesArgs == {"SP.POP.TOTL", "SP.DYN.CBRT.IN"}
CountryArgs == {Absent, "all", "can", "ca;us;mx"}
StartArgs == {0, 7, 1990, 2000}
EndArgs == {None, Some(0), Some(2000), Some(2020)}

\* any connector, against the upstream of the tests
InitArgs ==
    /\ \E s \in SeriesArgs, c \in CountryArgs, a \in StartArgs, b \in EndArgs :
         Constructed(s, a, b, c)
    /\ upstream = MockUpstream
    /\ Fresh

\* ---------------------------------------------------------------- operations
\* one operation at a time, and at most MaxCalls of them
Callable == outcome # "running" /\ ncalls < MaxCalls

\* an operation is called and creates the generator; nothing is requested yet
Begin(m, params) ==
    /\ session_params' = params
    /\ ncalls' = ncalls + 1
    /\ mode' = m
    /\ outcome' = "running"
    /\ previous' = outcome
    /\ gen' = "top"
    /\ info' = NoInfo
    /\ data' = <<>>
    /\ requests' = <<>>
    /\ statuses' = <<>>
    /\ infos' = <<>>
    /\ yielded' = <<>>
    /\ table_before' = table
    /\ page_at_call' = session_params.page
    /\ start_page' = params.page
    /\ UNCHANGED <<url, series, country, start_date, end_date, upstream, table, returned>>

\* queary_json is called: _refresh, data = [], then the loop over the generator
QuearyJson ==
    /\ Callable
    /\ Begin("json", Refresh(session_params))

\* queary_to_sql is called: its first statement is the call of queary_json
QuearyToSql ==
    /\ Callable
    /\ Begin("sql", Refresh(session_params))

\* paged_request_iter that puts the page back to 1 itself
PagedRequestIterResets ==
    /\ Callable
    /\ Begin("iter", Refresh(session_params))

\* a consumer loops over paged_request_iter(session, url) itself
PagedRequestIter ==
    /\ Callable
    /\ Begin("iter", session_params)

\* a loop body that keeps only records not collected yet
ConsumeDistinct(m, d, page) ==
    IF m \in {"json", "sql"}
    THEN d \o SelectSeq(page, LAMBDA r : \A i \in 1..Len(d) : d[i] # r)
    ELSE d

\* the body of the consumer's loop: queary_json extends its list with the page
Consume(m, d, page) == IF m \in {"json", "sql"} THEN d \o page ELSE d

\* Fetch, loading every page into the table as it arrives
FetchLoadsPage ==
    /\ gen = "top"
    /\ requests' = Append(requests, session_params.page)
    /\ \E status \in Statuses :
         /\ statuses' = Append(statuses, status)
         /\ IF RaisesForStatus(status)
            THEN /\ gen' = "raised"
                 /\ outcome' = "error"
                 /\ data' = <<>>
                 /\ UNCHANGED <<info, infos, yielded, table>>
            ELSE LET r == Respond(upstream, session_params.page) IN
                 /\ info' = r.info
                 /\ infos' = Append(infos, r.info)
                 /\ yielded' = Append(yielded, r.data)
                 /\ data' = Consume(mode, data, r.data)
                 /\ table' = IF mode = "sql" THEN ToSqlAppend(table, Normalize(r.data)) ELSE table
                 /\ gen' = "yielded"
                 /\ UNCHANGED outcome
    /\ UNCHANGED <<session_params, url, series, country, start_date, end_date, upstream,
                   previous, mode, table_before, page_at_call, start_page, returned, ncalls>>

\* Fetch, advancing the page before the yield instead of after it
FetchAdvancesBeforeYield ==
    /\ gen = "top"
    /\ requests' = Append(requests, session_params.page)
    /\ \E status \in Statuses :
         /\ statuses' = Append(statuses, status)
         /\ IF RaisesForStatus(status)
            THEN /\ gen' = "raised"
                 /\ outcome' = "error"
                 /\ data' = <<>>
                 /\ UNCHANGED <<info, infos, yielded, session_params>>
            ELSE LET r == Respond(upstream, session_params.page) IN
                 /\ info' = r.info
                 /\ infos' = Append(infos, r.info)
                 /\ yielded' = Append(yielded, r.data)
                 /\ data' = Consume(mode, data, r.data)
                 /\ session_params' = IF LastPage(r.info) THEN session_params
                                      ELSE NextPage(session_params)
                 /\ gen' = "yielded"
                 /\ UNCHANGED outcome
    /\ UNCHANGED <<url, series, country, start_date, end_date, upstream,
                   previous, mode, table, table_before, page_at_call, start_page,
                   returned, ncalls>>

\* top of the loop: session.get, raise_for_status, r.json(), yield data
Fetch ==
    /\ gen = "top"
    /\ requests' = Append(requests, session_params.page)
    /\ \E status \in Statuses :
         /\ statuses' = Append(statuses, status)
         /\ IF RaisesForStatus(status)
            THEN /\ gen' = "raised"
                 /\ outcome' = "error"
                 /\ data' = <<>>
                 /\ UNCHANGED <<info, infos, yielded>>
            ELSE LET r == Respond(upstream, session_params.page) IN
                 /\ info' = r.info
                 /\ infos' = Append(infos, r.info)
                 /\ yielded' = Append(yielded, r.data)
                 /\ data' = Consume(mode, data, r.data)
                 /\ gen' = "yielded"
                 /\ UNCHANGED outcome
    /\ UNCHANGED <<session_params, url, series, country, start_date, end_date, upstream,
                   previous, mode, table, table_before, page_at_call, start_page, returned, ncalls>>

\* the generator is resumed after a yield: break, or page += 1 and loop.
\* On break the consumer's loop ends: queary_json returns its list, and
\* queary_to_sql normalizes it and appends it to the table.
Resume ==
    /\ gen = "yielded"
    /\ IF LastPage(info)
       THEN /\ gen' = "done"
            /\ outcome' = "ok"
            /\ data' = <<>>
            /\ returned' = IF mode \in {"json", "sql"}
                           THEN Append(returned, [op |-> mode, data |-> data])
                           ELSE returned
            /\ table' = IF mode = "sql" THEN ToSqlAppend(table, Normalize(data)) ELSE table
            /\ UNCHANGED session_params
       ELSE /\ session_params' = NextPage(session_params)
            /\ gen' = "top"
            /\ UNCHANGED <<outcome, data, returned, table>>
    /\ UNCHANGED <<url, series, country, start_date, end_date, upstream, info, mode,
                   previous, table_before, page_at_call, start_page, requests, statuses, infos,
                   yielded, ncalls>>

\* the consumer of a direct iteration stops pulling after a yield
Abandon ==
    /\ gen = "yielded"
    /\ mode = "iter"
    /\ gen' = "closed"
    /\ outcome' = "abandoned"
    /\ UNCHANGED <<session_params, url, series, country, start_date, end_date, upstream,
                   previous, info, mode, data, table, table_before, page_at_call, start_page,
                   requests, statuses, infos, yielded, returned, ncalls>>

Next == QuearyJson \/ QuearyToSql \/ PagedRequestIter \/ Fetch \/ Resume \/ Abandon

Spec == Init /\ [][Next]_vars

SpecArgs == InitArgs /\ [][Next]_vars

\* ---------------------------------------------------------------- properties
Max(a, b) == IF a >= b THEN a ELSE b

\* records of pages 1..n of the upstream, concatenated in page order
RECURSIVE Concat(_, _)
Concat(recs, n) == IF n = 0 THEN <<>> ELSE Concat(recs, n - 1) \o recs[n]

\* rows handed to the table by the completed queary_to_sql calls
RECURSIVE LoadedRows(_)
LoadedRows(rs) ==
    IF rs = <<>> THEN 0
    ELSE LoadedRows(Tail(rs)) + (IF Head(rs).op = "sql" THEN Len(Head(rs).data) ELSE 0)

\* C1 as stated: a drain begun at page 1 that has completed yielded exactly
\* P batches and left the page counter at P, for every page count P the
\* upstream reports.
C1_YieldsPBatches ==
    (gen = "done" /\ start_page = 1) =>
        /\ Len(yielded) = upstream.pages
        /\ session_params.page = upstream.pages

\* C1 amended: a drain begun at page 1 never yields more than max(P, 1)
\* batches nor issues more than max(P, 1) requests, and once completed it has
\* yielded exactly max(P, 1) batches with the page counter at max(P, 1):
\* P batches and counter P when P >= 1, one batch and counter 1 when P = 0.
C1_YieldsPBatchesFromOnePage ==
    start_page = 1 =>
        /\ Len(yielded) <= Max(upstream.pages, 1)
        /\ Len(requests) <= Max(upstream.pages, 1)
        /\ gen = "done" =>
             /\ Len(yielded) = Max(upstream.pages, 1)
             /\ session_params.page = Max(upstream.pages, 1)

C1_Witness ==
    /\ gen = "done"
    /\ start_page = 1
    /\ upstream.pages >= 2
    /\ Len(yielded) = upstream.pages

\* C2: a request follows the k-th batch only if that batch's metadata has
\* page < pages; a resumed generator ends only on metadata with page >= pages
\* and goes back to the top of its loop only on metadata with page < pages;
\* when the first metadata has page >= pages there is exactly one request and
\* one batch.
C2_StopsExactlyAtLastPage ==
    /\ \A k \in 1..Len(infos) :
         Len(requests) > k => infos[k].page < infos[k].pages
    /\ gen = "done" => infos[Len(infos)].page >= infos[Len(infos)].pages
    /\ (gen = "top" /\ infos # <<>>) => infos[Len(infos)].page < infos[Len(infos)].pages
    /\ (infos # <<>> /\ infos[1].page >= infos[1].pages) =>
         /\ Len(requests) = 1
         /\ Len(yielded) = 1

C2_Witness ==
    /\ gen = "done"
    /\ Len(infos) >= 2
    /\ Len(requests) = Len(infos)

\* C3: a response with a non-success status is the last request of its
\* fetch, its page is not yielded (the batches yielded are those of the
\* requests before it), and the fetch has ended with an error.
C3_FailureStopsFetch ==
    \A k \in 1..Len(statuses) :
        statuses[k] >= 400 =>
            /\ k = Len(requests)
            /\ Len(yielded) = k - 1
            /\ gen = "raised"
            /\ outcome = "error"

C3_Witness ==
    /\ gen = "raised"
    /\ Len(requests) = 2
    /\ Len(yielded) = 1
    /\ statuses[2] >= 400

\* C4: while queary_to_sql is draining, and after it has failed on a page
\* fetch, the table is what it was when the call began.
C4_FailedLoadLeavesTable ==
    (mode = "sql" /\ outcome \in {"running", "error"}) => table = table_before

C4_Witness ==
    /\ mode = "sql"
    /\ outcome = "error"
    /\ Len(yielded) >= 1
    /\ table # <<>>

\* C5: all completed queary_json calls on one connector returned the same
\* record sequence, whatever the page counter was when each was called.
C5_RestartIdempotent ==
    \A i, j \in 1..Len(returned) : returned[i].data = returned[j].data

C5_Witness ==
    /\ Len(returned) >= 2
    /\ outcome = "ok"
    /\ mode = "json"
    /\ page_at_call > 1
    /\ Len(returned[1].data) > Len(upstream.records[upstream.pages])

\* C6: every completed queary_json returned the records of pages 1..P
\* concatenated in ascending page order, every record kept.
C6_DrainInPageOrder ==
    \A i \in 1..Len(returned) :
        returned[i].data = Concat(upstream.records, upstream.pages)

C6_Witness ==
    /\ returned # <<>>
    /\ upstream.pages >= 2
    /\ upstream.records[1] = upstream.records[2]
    /\ Len(returned[1].data) >= 2

\* C7: the table holds as many rows as the completed loads handed to it, and
\* the rows it held when the current operation began are still its first rows.
C7_LoadAdditive ==
    /\ Len(table) = LoadedRows(returned)
    /\ Len(table) >= Len(table_before)
    /\ SubSeq(table, 1, Len(table_before)) = table_before

C7_Witness ==
    /\ Len(returned) = 2
    /\ returned[1].op = "sql"
    /\ returned[2].op = "sql"
    /\ returned[1].data # <<>>
    /\ returned[1].data = returned[2].data
    /\ Len(table) = 2 * Len(returned[1].data)

\* C8 as stated: the date parameter is str(start) when no end date was
\* supplied and "start:end" when one was, for every start and end date.
C8_DateParam ==
    session_params.date =
        IF end_date = None
        THEN Str(start_date)
        ELSE Str(start_date) \o ":" \o Str(end_date[1])

\* C9: the url is {base}/country/{country}/indicator/{series}, with "all" for
\* a country that was not supplied, before, during and after every drain.
C9_UrlTemplate ==
    url = "https://api.worldbank.org/v2/country/"
          \o (IF country = Absent THEN "all" ELSE country)
          \o "/indicator/" \o series

C9_Witness ==
    /\ country = Absent
    /\ series = "SP.DYN.CBRT.IN"
    /\ outcome = "ok"
    /\ session_params.page = 2

\* the page counter is the page of the last request, or one more once the
\* generator has gone back to the top of its loop
CounterFollowsRequests ==
    /\ gen = "top" => session_params.page = Len(requests) + 1
    /\ gen \in {"yielded", "done", "raised", "closed"} => session_params.page = Len(requests)

\* C10 as stated: in a drain begun at page 1 the k-th request carries page k,
\* the counter moves by +1 from one request to the next, and no request
\* carries a page greater than the page count P the upstream reports.
C10_RequestsInOrder ==
    start_page = 1 =>
        /\ \A k \in 1..Len(requests) : requests[k] = k /\ requests[k] <= upstream.pages
        /\ CounterFollowsRequests

\* C10 amended: as stated, except that the bound on the page of a request is
\* max(P, 1): the first request carries page 1 also when the upstream
\* reports 0 pages.
C10_RequestsInOrderFromOnePage ==
    start_page = 1 =>
        /\ \A k \in 1..Len(requests) :
             requests[k] = k /\ requests[k] <= Max(upstream.pages, 1)
        /\ CounterFollowsRequests

C10_Witness ==
    /\ start_page = 1
    /\ Len(requests) >= 3
    /\ gen = "done"

\* C11: in a drain begun at page 1, whenever the generator is suspended at
\* its k-th yield, and after a consumer has stopped pulling there, exactly k
\* requests have been issued, the last of them for page k, and the page
\* counter is k: nothing has been requested for page k + 1.
C11_LazyAdvance ==
    (start_page = 1 /\ gen \in {"yielded", "closed"}) =>
        /\ Len(requests) = Len(yielded)
        /\ session_params.page = Len(yielded)
        /\ \A i \in 1..Len(requests) : requests[i] <= Len(yielded)

C11_Witness ==
    /\ start_page = 1
    /\ gen = "closed"
    /\ Len(yielded) = 2
    /\ upstream.pages >= 3
    /\ session_params.page = 2

\* C12 as stated: paged_request_iter starts from the counter it finds, and
\* when it is invoked after a complete drain, with no reset in between, every
\* request it issues is for page P (the page count the upstream reports), it
\* yields at most one batch, and once it has completed it has issued exactly
\* one request and yielded exactly one batch, the records of that page.
C12_RestartRequestsLastPage ==
    mode = "iter" =>
        /\ start_page = page_at_call
        /\ previous = "ok" =>
             /\ \A k \in 1..Len(requests) : requests[k] = upstream.pages
             /\ Len(yielded) <= 1
             /\ gen = "done" =>
                  /\ Len(requests) = 1
                  /\ yielded = <<Respond(upstream, upstream.pages).data>>

\* C12 amended: as stated, with page max(P, 1) for page P: after a complete
\* drain of an upstream that reports 0 pages the counter is 1, and the one
\* request of the next invocation is for page 1.
C12_RestartRequestsCounterPage ==
    mode = "iter" =>
        /\ start_page = page_at_call
        /\ previous = "ok" =>
             /\ page_at_call = Max(upstream.pages, 1)
             /\ \A k \in 1..Len(requests) : requests[k] = Max(upstream.pages, 1)
             /\ Len(yielded) <= 1
             /\ gen = "done" =>
                  /\ Len(requests) = 1
                  /\ yielded = <<Respond(upstream, Max(upstream.pages, 1)).data>>

C12_Witness ==
    /\ mode = "iter"
    /\ previous = "ok"
    /\ gen = "done"
    /\ upstream.pages >= 2
    /\ requests = <<upstream.pages>>
    /\ yielded = <<upstream.records[upstream.pages]>>

====
